---- MODULE Spec2Model ----
(***************************************************************************)
(* Model of server/simple-test.py: the baseline smoke-test harness.        *)
(*                                                                         *)
(* A response body is a finite sequence of text tokens; the text of a body *)
(* is the concatenation of its tokens.  No token's text contains another   *)
(* token's text, so substring counting and the two regular expressions of  *)
(* test_scenario are computed token-wise exactly as on the text.           *)
(* Response times are whole milliseconds and the average is kept as the    *)
(* exact quotient num/den (floating-point rounding is not modelled).       *)
(***************************************************************************)
EXTENDS Integers, Sequences, FiniteSets, TLC

VARIABLES pc, clock, health, posts, responses, baseline_results,
          file, fileAtStart, wrote, exit

vars == <<pc, clock, health, posts, responses, baseline_results,
          file, fileAtStart, wrote, exit>>

-----------------------------------------------------------------------------
(* Bounds *)

\* number of fragments a generated response body is made of
MaxParts == 3
\* number of executions of the script in a sequence of runs
MaxRuns == 3

-----------------------------------------------------------------------------
(* Tokens of a response body *)

PlayTag == "<Play>"
SayTag == "<Say>"
Quote == "\""
LowerTimeoutEq == "timeout="
UpperTimeoutEq == "Timeout="
SpeechWord == "speech"

Fragments ==
    { <<PlayTag>>, <<SayTag>>,
      <<LowerTimeoutEq, Quote, "5", Quote>>,
      <<SpeechWord, UpperTimeoutEq, Quote, "auto", Quote>>,
      <<SpeechWord>>,
      <<LowerTimeoutEq, Quote>>,
      <<"error">>, <<"Error">> }

RECURSIVE BodiesOf(_)
BodiesOf(n) ==
    IF n = 0 THEN { <<>> }
    ELSE LET shorter == BodiesOf(n - 1)
         IN  shorter \cup { b \o f : b \in shorter, f \in Fragments }

\* an optional value: <<>> is None, <<v>> is the value v
None == <<>>
Some(v) == <<v>>

-----------------------------------------------------------------------------
(* test_scenario *)

TimeoutSentinel == 30000

\* str.count of a one-token marker
CountOf(stdout, tok) == Cardinality({ i \in 1..Len(stdout) : stdout[i] = tok })

\* the first closing quote at or after position k, 0 when there is none
FirstQuoteFrom(stdout, k) ==
    LET qs == { j \in k..Len(stdout) : stdout[j] = Quote }
    IN  IF qs = {} THEN 0 ELSE CHOOSE j \in qs : \A q \in qs : j <= q

\* re.search of prefix + '"([^"]*)"': the group of the leftmost match
SearchAttr(stdout, prefix) ==
    LET n == Len(prefix)
        starts == { i \in 1..Len(stdout) :
                      /\ i + n <= Len(stdout)
                      /\ SubSeq(stdout, i, i + n - 1) = prefix
                      /\ stdout[i + n] = Quote
                      /\ FirstQuoteFrom(stdout, i + n + 1) # 0 }
    IN  IF starts = {} THEN None
        ELSE LET i == CHOOSE s \in starts : \A t \in starts : s <= t
             IN  Some(SubSeq(stdout, i + n + 1,
                             FirstQuoteFrom(stdout, i + n + 1) - 1))

\* re.search(r'timeout="([^"]*)"', result.stdout)
GatherPattern == <<LowerTimeoutEq>>
\* re.search(r'speechTimeout="([^"]*)"', result.stdout)
SpeechPattern == <<SpeechWord, UpperTimeoutEq>>

gather_timeout(stdout) == SearchAttr(stdout, GatherPattern)
speech_timeout(stdout) == SearchAttr(stdout, SpeechPattern)

\* 'error' in result.stdout.lower(): the advisory warning is printed
ContainsError(stdout) == \E i \in 1..Len(stdout) : stdout[i] \in {"error", "Error"}

\* a success flag that the advisory "error" check turns off
SuccessUnlessError(result) ==
    result.returncode = 0 /\ ~ContainsError(result.stdout)

\* 'success': result.returncode == 0
Success(result) == result.returncode = 0

\* a runner whose gather_timeout is bound even when the body is empty
ScenarioRaisesBound(result) == result.raised

\* The exception, if any, that ends the try block of test_scenario:
\* what subprocess.run raised, or the UnboundLocalError of reading
\* gather_timeout when the body was empty and the variable never assigned.
ScenarioRaises(result) ==
    IF result.raised # "none" THEN result.raised
    ELSE IF result.stdout = <<>> THEN "UnboundLocalError"
    ELSE "none"

\* a timeout record that carries the measured time
ReportedTimeMeasured(result) == result.elapsed

\* the measured value on the normal path, the fixed 30000 on a timeout
ReportedTime(result) ==
    IF result.raised = "TimeoutExpired" THEN TimeoutSentinel ELSE result.elapsed

test_scenario(scenario_name, result) ==
    IF ScenarioRaises(result) = "TimeoutExpired"
    THEN [scenario |-> scenario_name, response_time_ms |-> ReportedTime(result),
          success |-> FALSE, timeout |-> TRUE]
    ELSE IF ScenarioRaises(result) # "none"
    THEN [scenario |-> scenario_name, success |-> FALSE,
          error |-> ScenarioRaises(result)]
    ELSE [scenario |-> scenario_name,
          response_time_ms |-> ReportedTime(result),
          success |-> Success(result),
          tts_instances |-> CountOf(result.stdout, PlayTag),
          fallback_instances |-> CountOf(result.stdout, SayTag),
          gather_timeout |-> gather_timeout(result.stdout),
          speech_timeout |-> speech_timeout(result.stdout)]

\* the curl command line of one scenario
Cmd(speech_text, call_id) ==
    [method |-> "POST", url |-> "http://localhost:3000/twilio/gather",
     CallSid |-> call_id, SpeechResult |-> speech_text, Confidence |-> "0.9"]

-----------------------------------------------------------------------------
(* main *)

scenarios ==
    << [scenario_name |-> "Termite Emergency",
        speech_text |-> "Hi I have a termite emergency in Mosman",
        call_id |-> "baseline-test-1"],
       [scenario_name |-> "Service Inquiry",
        speech_text |-> "Do you service Cremorne what services do you offer",
        call_id |-> "baseline-test-2"],
       [scenario_name |-> "Booking Request",
        speech_text |-> "My name is John and I need to book a pest control treatment for Friday",
        call_id |-> "baseline-test-3"],
       [scenario_name |-> "Business Hours",
        speech_text |-> "What are your business hours",
        call_id |-> "baseline-test-4"] >>

\* r.get(key, default) on a result record
Get(r, key, default) == IF key \in DOMAIN r THEN r[key] ELSE default

\* a filter that keeps every result that has a time
HasResponseTime(r) == "response_time_ms" \in DOMAIN r

\* [r for r in baseline_results if r.get('success', False)]
IsSuccessful(r) == Get(r, "success", FALSE)
successful_tests(results) == SelectSeq(results, IsSuccessful)

RECURSIVE SumTimes(_)
SumTimes(rs) ==
    IF rs = <<>> THEN 0 ELSE rs[1].response_time_ms + SumTimes(Tail(rs))

MinTime(rs) ==
    CHOOSE t \in { rs[i].response_time_ms : i \in 1..Len(rs) } :
        \A j \in 1..Len(rs) : t <= rs[j].response_time_ms

MaxTime(rs) ==
    CHOOSE t \in { rs[i].response_time_ms : i \in 1..Len(rs) } :
        \A j \in 1..Len(rs) : t >= rs[j].response_time_ms

\* sum(...) / len(successful_tests), kept as the exact quotient num/den
avg_response_time(rs) == [num |-> SumTimes(rs), den |-> Len(rs)]

\* a report that keeps the results of the file it replaces
SummaryReportAppended(now, results) ==
    LET ok == successful_tests(results)
        old == IF "detailed_results" \in DOMAIN file
               THEN file.detailed_results ELSE <<>>
    IN  [timestamp |-> now,
         summary |-> [total_tests |-> Len(results),
                      successful_tests |-> Len(ok),
                      avg_response_time_ms |-> avg_response_time(ok),
                      min_response_time_ms |-> MinTime(ok),
                      max_response_time_ms |-> MaxTime(ok)],
         detailed_results |-> old \o results]

\* the document json.dump writes
SummaryReport(now, results) ==
    LET ok == successful_tests(results)
    IN  [timestamp |-> now,
         summary |-> [total_tests |-> Len(results),
                      successful_tests |-> Len(ok),
                      avg_response_time_ms |-> avg_response_time(ok),
                      min_response_time_ms |-> MinTime(ok),
                      max_response_time_ms |-> MaxTime(ok)],
         detailed_results |-> results]

\* baseline-results.json does not exist
NoFile == [absent |-> TRUE]
\* the health probe has not run yet
NoProbe == [raised |-> "not run"]

-----------------------------------------------------------------------------
(* What the environment can answer *)

\* measured wall-clock times of a call that returned, in milliseconds
Times == {100, 200, 300, 400}
\* measured wall-clock time of a call that was cut off after 30 seconds
OverTimes == {30004}
\* curl exit statuses: 0, and 7 (could not connect)
ExitStatuses == {0, 7}

TypicalBody ==
    <<PlayTag, SayTag, LowerTimeoutEq, Quote, "5", Quote,
      SpeechWord, UpperTimeoutEq, Quote, "auto", Quote>>

Returned(statuses, bodies, times) ==
    [raised : {"none"}, returncode : statuses, stdout : bodies, elapsed : times]
TimedOut ==
    [raised : {"TimeoutExpired"}, returncode : {-1}, stdout : {<<>>},
     elapsed : OverTimes]
Failed ==
    [raised : {"OSError"}, returncode : {-1}, stdout : {<<>>}, elapsed : {100}]

\* one whole run of the script
MainResponses ==
    Returned({0}, {<<>>, TypicalBody}, Times)
      \cup Returned({7}, {<<>>, TypicalBody}, {100, 400})
      \cup TimedOut \cup Failed
\* a sequence of runs
RunResponses == Returned({0}, {<<>>, TypicalBody}, {100, 200}) \cup TimedOut
\* one call of test_scenario
UnitResponses ==
    Returned(ExitStatuses, BodiesOf(MaxParts), {100, 200}) \cup TimedOut \cup Failed

\* bodies of GET /health as json.loads sees them
JStr == [type |-> "string"]
JObj(m) == [type |-> "object", members |-> m]
HealthyBody == JObj([status |-> JStr,
                     services |-> JObj([database |-> JStr, redis |-> JStr])])
HealthBodies ==
    { HealthyBody,
      JObj([status |-> JStr]),
      JObj([status |-> JStr, services |-> JStr]),
      [type |-> "array"],
      [type |-> "invalid"] }

HealthResponses ==
    [raised : {"none"}, returncode : {0}, stdout : HealthBodies]
      \cup [raised : {"none"}, returncode : {7}, stdout : {[type |-> "invalid"]}]
      \cup [raised : {"TimeoutExpired", "OSError"}, returncode : {-1},
            stdout : {[type |-> "invalid"]}]
RunHealthResponses ==
    { h \in HealthResponses : h.stdout \in {HealthyBody, [type |-> "invalid"]} }

\* a probe whose json.loads lets a body that is not JSON through
HealthRaisesNoParse(h) ==
    IF h.raised # "none" THEN h.raised
    ELSE IF h.returncode # 0 THEN "none"
    ELSE IF h.stdout.type \in {"invalid", "object"} THEN "none"
    ELSE "AttributeError"

\* The exception, if any, raised inside the try block of the health probe:
\* by subprocess.run, by json.loads, or by .get on a value that is no dict.
HealthRaises(h) ==
    IF h.raised # "none" THEN h.raised
    ELSE IF h.returncode # 0 THEN "none"
    ELSE IF h.stdout.type = "invalid" THEN "JSONDecodeError"
    ELSE IF h.stdout.type # "object" THEN "AttributeError"
    ELSE IF /\ "services" \in DOMAIN h.stdout.members
            /\ h.stdout.members.services.type # "object" THEN "AttributeError"
    ELSE "none"

\* a probe that looks at the exceptions only, not at curl's exit status
HealthPassesWhateverStatus(h) == HealthRaises(h) = "none"

\* main goes on to the scenarios
HealthPasses(h) == h.returncode = 0 /\ HealthRaises(h) = "none"

-----------------------------------------------------------------------------
(* Actions *)

Init ==
    /\ pc = "health"
    /\ clock = 1
    /\ health = NoProbe
    /\ posts = <<>>
    /\ responses = <<>>
    /\ baseline_results = <<>>
    /\ file = NoFile
    /\ fileAtStart = NoFile
    /\ wrote = FALSE
    /\ exit = "running"

\* lines 72-85: the health probe; every failure returns from main
Probe(h) ==
    /\ pc = "health"
    /\ health' = h
    /\ IF HealthPasses(h)
       THEN pc' = "loop" /\ exit' = exit
       ELSE pc' = "done" /\ exit' = "returned"
    /\ UNCHANGED <<clock, posts, responses, baseline_results, file,
                   fileAtStart, wrote>>

\* the scenario the for loop is at
NextScenario(results) == Len(results) + 1

\* lines 96-97, 15-22: the loop calls test_scenario, which starts curl
IssuePost ==
    /\ pc = "loop"
    /\ NextScenario(baseline_results) <= Len(scenarios)
    /\ LET s == scenarios[NextScenario(baseline_results)]
       IN  posts' = Append(posts, Cmd(s.speech_text, s.call_id))
    /\ pc' = "inflight"
    /\ UNCHANGED <<clock, health, responses, baseline_results, file,
                   fileAtStart, wrote, exit>>

\* a loop that gives up at the first failed scenario
AfterScenarioStopOnFailure(res) == IF res.success THEN "loop" ELSE "done"

\* lines 96-99: the loop goes on to the next scenario whatever the result
AfterScenario(res) == "loop"

\* lines 22-65, 98-99: curl ends, test_scenario returns, the result is appended
Complete(r) ==
    /\ pc = "inflight"
    /\ LET s == scenarios[NextScenario(baseline_results)]
           res == test_scenario(s.scenario_name, r)
       IN  /\ baseline_results' = Append(baseline_results, res)
           /\ pc' = AfterScenario(res)
    /\ responses' = Append(responses, r)
    /\ UNCHANGED <<clock, health, posts, file, fileAtStart, wrote, exit>>

\* a write that needs more than one successful result
WritesFileNeedsTwo(results) == Len(successful_tests(results)) > 1

\* if successful_tests:
WritesFile(results) == successful_tests(results) # <<>>

\* lines 101-133: the summary, the file write, the return
Aggregate ==
    /\ pc = "loop"
    /\ NextScenario(baseline_results) > Len(scenarios)
    /\ IF WritesFile(baseline_results)
       THEN file' = SummaryReport(clock, baseline_results) /\ wrote' = TRUE
       ELSE UNCHANGED <<file, wrote>>
    /\ pc' = "done"
    /\ exit' = "returned"
    /\ UNCHANGED <<clock, health, posts, responses, baseline_results, fileAtStart>>

\* the script is started again, later; the file of the last run is still there
Rerun ==
    /\ pc = "done"
    /\ clock < MaxRuns
    /\ pc' = "health"
    /\ clock' = clock + 1
    /\ health' = NoProbe
    /\ posts' = <<>>
    /\ responses' = <<>>
    /\ baseline_results' = <<>>
    /\ fileAtStart' = file
    /\ wrote' = FALSE
    /\ exit' = "running"
    /\ UNCHANGED file

HealthProbe == \E h \in HealthResponses : Probe(h)
RunScenario == \E r \in MainResponses : Complete(r)

Next == HealthProbe \/ IssuePost \/ RunScenario \/ Aggregate

Spec == Init /\ [][Next]_vars

RunsHealthProbe == \E h \in RunHealthResponses : Probe(h)
RunsScenario == \E r \in RunResponses : Complete(r)

NextRuns == RunsHealthProbe \/ IssuePost \/ RunsScenario \/ Aggregate \/ Rerun

SpecRuns == Init /\ [][NextRuns]_vars

\* one call test_scenario(scenario_name, speech_text, call_id)
InitUnit ==
    /\ pc = "unit"
    /\ clock = 1
    /\ health = NoProbe
    /\ posts = <<>>
    /\ responses = <<>>
    /\ baseline_results = <<>>
    /\ file = NoFile
    /\ fileAtStart = NoFile
    /\ wrote = FALSE
    /\ exit = "running"

UnitCall ==
    /\ pc = "unit"
    /\ \E i \in 1..Len(scenarios), r \in UnitResponses :
          /\ posts' = <<Cmd(scenarios[i].speech_text, scenarios[i].call_id)>>
          /\ responses' = <<r>>
          /\ baseline_results' = <<test_scenario(scenarios[i].scenario_name, r)>>
    /\ pc' = "returned"
    /\ UNCHANGED <<clock, health, file, fileAtStart, wrote, exit>>

NextUnit == UnitCall

SpecUnit == InitUnit /\ [][NextUnit]_vars

-----------------------------------------------------------------------------
(* Properties *)

Results == DOMAIN baseline_results
HasField(r, f) == f \in DOMAIN r
Succeeded(i) ==
    HasField(baseline_results[i], "success") /\ baseline_results[i].success
AnySuccess == \E i \in Results : Succeeded(i)
ProbeDone == health # NoProbe
ReportFields == {"timestamp", "summary", "detailed_results"}

\* C1: when the health probe's curl exits non-zero the run is over at once:
\* no scenario POST is issued, no result is collected and
\* baseline-results.json is not written in that run.
C1_HealthFailureAborts ==
    (ProbeDone /\ health.raised = "none" /\ health.returncode # 0)
        => /\ pc = "done"
           /\ posts = <<>>
           /\ baseline_results = <<>>
           /\ ~wrote
           /\ file = fileAtStart

C1_Witness ==
    pc = "done" /\ ProbeDone /\ health.raised = "none" /\ health.returncode = 7

\* C2: the file is written in a run if and only if some scenario result has
\* success true; four timeouts leave it unwritten; a written file is a whole
\* report with all four results, never a partial or empty one.
C2_WrittenIffSomeSuccess ==
    /\ wrote => AnySuccess
    /\ pc = "done" => (wrote <=> AnySuccess)
    /\ (\A i \in Results : responses[i].raised = "TimeoutExpired") => ~wrote
    /\ IF wrote
       THEN /\ DOMAIN file = ReportFields
            /\ Len(file.detailed_results) = 4
            /\ file.summary.successful_tests >= 1
       ELSE file = NoFile

C2_Witness ==
    /\ pc = "done"
    /\ Len(baseline_results) = 4
    /\ \A i \in Results : responses[i].raised = "TimeoutExpired"
    /\ file = NoFile

ExpectedPosts ==
    << <<"baseline-test-1", "Hi I have a termite emergency in Mosman">>,
       <<"baseline-test-2", "Do you service Cremorne what services do you offer">>,
       <<"baseline-test-3",
         "My name is John and I need to book a pest control treatment for Friday">>,
       <<"baseline-test-4", "What are your business hours">> >>
ExpectedNames ==
    <<"Termite Emergency", "Service Inquiry", "Booking Request", "Business Hours">>

\* C3: after a successful health probe, whatever the scenarios' outcomes, the
\* POSTs are those of baseline-test-1..4 in that order, one per scenario, each
\* with its CallSid, its SpeechResult and Confidence=0.9; a POST is issued
\* only when every earlier result has been appended; the run ends with four
\* POSTs and four results in scenario order.
C3_OnePostPerScenarioInOrder ==
    (ProbeDone /\ HealthPasses(health))
        => /\ Len(posts) <= 4
           /\ \A i \in DOMAIN posts :
                 /\ posts[i].method = "POST"
                 /\ posts[i].CallSid = ExpectedPosts[i][1]
                 /\ posts[i].SpeechResult = ExpectedPosts[i][2]
                 /\ posts[i].Confidence = "0.9"
           /\ Len(posts) = Len(baseline_results) + (IF pc = "inflight" THEN 1 ELSE 0)
           /\ Len(responses) = Len(baseline_results)
           /\ \A i \in Results : baseline_results[i].scenario = ExpectedNames[i]
           /\ pc = "done" => Len(posts) = 4 /\ Len(baseline_results) = 4

C3_Witness ==
    /\ pc = "done"
    /\ Len(baseline_results) = 4
    /\ responses[1].raised = "TimeoutExpired"
    /\ responses[2].raised = "OSError"
    /\ responses[3].raised = "none" /\ responses[3].returncode = 7
    /\ Succeeded(4)

TimedOutResults == { i \in Results : responses[i].raised = "TimeoutExpired" }

\* C4: a scenario cut off after 30 seconds gives a record with timeout true,
\* success false and response_time_ms 30000, which is not the measured time;
\* the record stays in detailed_results and counts in total_tests, and the
\* avg/min/max are taken without it.
C4_TimeoutSentinel ==
    /\ \A i \in TimedOutResults :
          /\ HasField(baseline_results[i], "timeout")
          /\ baseline_results[i].timeout = TRUE
          /\ baseline_results[i].success = FALSE
          /\ baseline_results[i].response_time_ms = 30000
          /\ baseline_results[i].response_time_ms # responses[i].elapsed
    /\ wrote =>
          /\ file.summary.total_tests = 4
          /\ \A i \in TimedOutResults : file.detailed_results[i] = baseline_results[i]
          /\ file.summary.successful_tests <= 4 - Cardinality(TimedOutResults)
          /\ file.summary.avg_response_time_ms.den = file.summary.successful_tests
          /\ file.summary.max_response_time_ms < 30000
          /\ file.summary.avg_response_time_ms.num
                 <= file.summary.max_response_time_ms * file.summary.successful_tests

C4_Witness ==
    pc = "done" /\ wrote /\ TimedOutResults # {}

RECURSIVE SumOfTimes(_, _)
SumOfTimes(rs, idx) ==
    IF idx = {} THEN 0
    ELSE LET i == CHOOSE j \in idx : TRUE
         IN  rs[i].response_time_ms + SumOfTimes(rs, idx \ {i})

\* C5: a written summary has the average, minimum and maximum of
\* response_time_ms over exactly the results with success true, so
\* min <= avg <= max; total_tests is 4 and successful_tests is the number of
\* successful results, 1..4; times 100, 200, 300, 400 give 250, 100, 400, 4, 4.
C5_SummaryStatistics ==
    wrote =>
        LET rs == file.detailed_results
            ok == { i \in DOMAIN rs : HasField(rs[i], "success") /\ rs[i].success }
            sm == file.summary
            avg == sm.avg_response_time_ms
        IN  /\ sm.total_tests = 4
            /\ Len(rs) = 4
            /\ sm.successful_tests = Cardinality(ok)
            /\ sm.successful_tests \in 1..4
            /\ avg.den = Cardinality(ok)
            /\ avg.num = SumOfTimes(rs, ok)
            /\ \E i \in ok : sm.min_response_time_ms = rs[i].response_time_ms
            /\ \E i \in ok : sm.max_response_time_ms = rs[i].response_time_ms
            /\ \A i \in ok : /\ sm.min_response_time_ms <= rs[i].response_time_ms
                             /\ sm.max_response_time_ms >= rs[i].response_time_ms
            /\ sm.min_response_time_ms * avg.den <= avg.num
            /\ avg.num <= sm.max_response_time_ms * avg.den
            /\ (\A i \in 1..4 : i \in ok /\ rs[i].response_time_ms = 100 * i)
                  => /\ avg.num = 250 * avg.den
                     /\ sm.min_response_time_ms = 100
                     /\ sm.max_response_time_ms = 400
                     /\ sm.total_tests = 4
                     /\ sm.successful_tests = 4

C5_Witness ==
    /\ wrote
    /\ \E i \in Results : ~Succeeded(i) /\ HasField(baseline_results[i], "response_time_ms")
    /\ \E i, j \in Results :
          /\ Succeeded(i) /\ Succeeded(j)
          /\ baseline_results[i].response_time_ms # baseline_results[j].response_time_ms

BadJsonProbe ==
    /\ ProbeDone
    /\ health.raised = "none"
    /\ health.returncode = 0
    /\ health.stdout.type = "invalid"

\* C6 as claimed: a health probe that exits zero with a body that is not JSON
\* ends the run by an uncaught exception, not by a return from main.
C6_BadJsonCrashes ==
    (BadJsonProbe /\ pc = "done") => exit = "crashed"

\* C6 as amended: a health probe that exits zero with a body that is not JSON
\* raises inside the try block; main catches it and returns normally, having
\* issued no scenario POST and written no file.
C6_BadJsonReturns ==
    BadJsonProbe
        => /\ pc = "done"
           /\ exit = "returned"
           /\ posts = <<>>
           /\ baseline_results = <<>>
           /\ ~wrote
           /\ file = fileAtStart

C6_Witness ==
    BadJsonProbe /\ pc = "done"

\* the fields the body decides
SameExtraction(a, b) ==
    /\ DOMAIN a = DOMAIN b
    /\ HasField(a, "gather_timeout")
    /\ a.tts_instances = b.tts_instances
    /\ a.fallback_instances = b.fallback_instances
    /\ a.gather_timeout = b.gather_timeout
    /\ a.speech_timeout = b.speech_timeout

WithoutErrors(stdout) == SelectSeq(stdout, LAMBDA t : t \notin {"error", "Error"})

Twins(r) ==
    { [r EXCEPT !.stdout = Append(r.stdout, "Error")],
      [r EXCEPT !.stdout = <<"error">> \o r.stdout],
      [r EXCEPT !.stdout = WithoutErrors(r.stdout)] }

\* C7: "error" in the body is advisory: two responses with the same exit
\* status and the same extracted fields, one with "error" in its body and one
\* without, give the same success flag; a body with "error" and exit status
\* zero gives success true.
C7_ErrorTextIsAdvisory ==
    pc = "returned" =>
        LET r == responses[1]
            res == baseline_results[1]
        IN  /\ \A t \in Twins(r) :
                  SameExtraction(res, test_scenario(res.scenario, t))
                      => test_scenario(res.scenario, t).success = res.success
            /\ (r.raised = "none" /\ r.returncode = 0 /\ ContainsError(r.stdout))
                  => res.success = TRUE

C7_Witness ==
    /\ pc = "returned"
    /\ responses[1].raised = "none"
    /\ responses[1].returncode = 0
    /\ ContainsError(responses[1].stdout)
    /\ CountOf(responses[1].stdout, PlayTag) = 1
    /\ baseline_results[1].success = TRUE

\* the body has an attribute written prefix="...", with both quotes
HasAttribute(stdout, prefix) ==
    \E i \in 1..Len(stdout), j \in 1..Len(stdout) :
        /\ i + Len(prefix) < j
        /\ \A k \in 1..Len(prefix) : stdout[i + k - 1] = prefix[k]
        /\ stdout[i + Len(prefix)] = Quote
        /\ stdout[j] = Quote

\* C8: every response without a timeout="..." attribute gives a result whose
\* gather_timeout is None, and every response without a speechTimeout="..."
\* attribute one whose speech_timeout is None, each whatever the other
\* attribute is; a speechTimeout attribute alone gives no gather_timeout.
C8_AbsentAttributeIsNone ==
    (pc = "returned" /\ responses[1].raised = "none") =>
        LET body == responses[1].stdout
            res == baseline_results[1]
        IN  /\ ~HasAttribute(body, <<LowerTimeoutEq>>)
                  => HasField(res, "gather_timeout") /\ res.gather_timeout = None
            /\ ~HasAttribute(body, <<SpeechWord, UpperTimeoutEq>>)
                  => HasField(res, "speech_timeout") /\ res.speech_timeout = None

\* C8 on the responses that have a body: there the claim holds.
C8_HoldsOnNonEmptyBodies ==
    (pc = "returned" /\ responses[1].raised = "none" /\ responses[1].stdout # <<>>) =>
        LET body == responses[1].stdout
            res == baseline_results[1]
        IN  /\ ~HasAttribute(body, <<LowerTimeoutEq>>)
                  => HasField(res, "gather_timeout") /\ res.gather_timeout = None
            /\ ~HasAttribute(body, <<SpeechWord, UpperTimeoutEq>>)
                  => HasField(res, "speech_timeout") /\ res.speech_timeout = None

ThisRunsReport ==
    /\ DOMAIN file = ReportFields
    /\ file.timestamp = clock
    /\ file.detailed_results = baseline_results
    /\ Len(file.detailed_results) = 4
    /\ file.summary.total_tests = 4
    /\ file.summary.successful_tests = Cardinality({ i \in Results : Succeeded(i) })

\* C9 as claimed: after each run of a sequence the file, when there is one,
\* is the report of the run just completed, with that run's four results.
C9_FileIsOfLastRun ==
    (pc = "done" /\ file # NoFile) => ThisRunsReport

\* C9 as amended: after a run in which some scenario succeeded the file is
\* the one report of that run, with exactly its four results, whatever file
\* was there before; a run that stops at the health probe or has no
\* successful scenario leaves the file as it found it.
C9_WritingRunOverwrites ==
    /\ ~wrote => file = fileAtStart
    /\ pc = "done" => IF AnySuccess THEN wrote /\ ThisRunsReport
                      ELSE file = fileAtStart

C9_Witness ==
    /\ pc = "done"
    /\ clock > 1
    /\ wrote
    /\ fileAtStart # NoFile
    /\ fileAtStart.detailed_results # baseline_results

\* C10: a result has success true only if curl exited zero with a non-empty
\* body; an empty body, whatever the exit status, gives the failure record
\* {scenario, success: false, error} and nothing else; so every successful
\* record has a response_time_ms for the aggregation to read.
C10_EmptyBodyIsFailure ==
    \A i \in Results :
        LET r == responses[i]
            res == baseline_results[i]
        IN  /\ Succeeded(i)
                 => /\ r.raised = "none"
                    /\ r.returncode = 0
                    /\ r.stdout # <<>>
                    /\ HasField(res, "response_time_ms")
                    /\ res.response_time_ms \in Nat
            /\ (r.raised = "none" /\ r.stdout = <<>>)
                 => /\ DOMAIN res = {"scenario", "success", "error"}
                    /\ res.success = FALSE
                    /\ res.scenario = ExpectedNames[i]

C10_Witness ==
    /\ pc = "done"
    /\ wrote
    /\ \E i \in Results :
          /\ responses[i].raised = "none"
          /\ responses[i].returncode = 0
          /\ responses[i].stdout = <<>>

====
